---- MODULE Spec2Model ----
(***************************************************************************)
(* Model of the contributor-activity extraction scripts:                   *)
(*   src/extract_users/extract_users.py        (GitHub REST)               *)
(*   src/extract_data/extract_data_github.py   (GitHub REST)               *)
(*   src/extract_data/extract_gitlab.py        (GitLab REST)               *)
(*                                                                         *)
(* The two GitHub REST scripts have the same get_paginated_data and the    *)
(* same main loop; they are the variant script = "github", whose listing   *)
(* `repos` is the list of names get_repos returns.  The GitLab script is   *)
(* the variant script = "gitlab".                                          *)
(*                                                                         *)
(* Of the cells of the output file only those of the repo/project column   *)
(* are modelled with the types pandas gives them when the file is read.    *)
(*                                                                         *)
(* A URL is modelled by the index of the page it addresses in the chain of *)
(* pages the API serves for the resource being fetched.  The chain is      *)
(* revealed as it is requested: the first request of a page fixes its      *)
(* items, its status and whether it carries a 'next' link (to page i+1).   *)
(*                                                                         *)
(* Environment assumption: the reset time reported with a low quota is not *)
(* more than 10 seconds in the past, so that time.sleep is called with a   *)
(* non-negative duration and returns.                                      *)
(***************************************************************************)
EXTENDS Integers, Sequences, FiniteSets, TLC

VARIABLES
    script,          \* which script runs: "github" or "gitlab"
    pc,              \* position of the script (the call site of a fetch)
    \* get_paginated_data
    pages,           \* the pages the API served so far for the current fetch
    url,             \* url (page index, NoUrl when none)
    items,           \* items
    response,        \* response (NoResponse before the first)
    fpc,             \* position inside get_paginated_data
    result,          \* value returned by the last call
    reqlog,          \* URLs requested by the current call, in order
    sleptlog,        \* URLs after whose response the current call slept
    \* the output file and what was loaded from it
    csv_file,        \* the file on disk: [exists, rows]
    repo_data_list,  \* repo_data_list
    processed_repos, \* processed_repos / processed_projects
    loaded,          \* the rows load_existing_data returned at startup
    \* the listing and the loop over it
    repos,           \* repos / all_projects
    subgroups,       \* get_subgroups_and_projects: subgroups of the current group
    gstack,          \* get_subgroups_and_projects: subgroups still to visit, per frame
    ri,              \* index of the repository/project the main loop is at
    entered,         \* indices of the repositories/projects whose body was entered
    \* one repository/project
    contributors,    \* contributors
    languages,       \* languages
    lang_status,     \* status of the last languages response (0: none yet)
    ci,              \* index of the contributor the inner loop is at
    contributors_data, \* contributors_data (GitLab)
    merge_requests,  \* merge_requests (GitLab)
    skipped,         \* indices of the contributors whose commits request raised
    \* one contributor
    user_commits,    \* user_commits
    pull_requests,   \* pull_requests
    issues,          \* issues
    pulls,           \* get_reviews: pulls
    pi,              \* get_reviews: index of the pull request the loop is at
    reviews,         \* get_reviews: reviews
    \* get_repos of extract_users.py, called on its own
    listing,         \* repos: what get_paginated_data returned (names as characters)
    current_year,    \* current_year
    filtered_repos,  \* filtered_repos
    gi,              \* index of the repository the loop of get_repos is at
    gpc,             \* position inside get_repos
    \* get_commit_history_by_month, called on its own
    commits,         \* commits
    commit_history,  \* commit_history
    hi,              \* index of the commit the loop is at
    hpc,             \* position inside get_commit_history_by_month
    \* generate_summary of extract_contribution.py
    users,           \* users: what read_users returned
    results,         \* results
    ui,              \* index of the user the loop of generate_summary is at
    reply,           \* get_user_data: what requests.post gave for that user
    output_csv,      \* the summary file: [exists, rows]
    spc,             \* position inside generate_summary
    \* the GitHub filters by login, called on their own
    activity,        \* pulls / issues / reviews: what the fetch returned
    user_login,      \* user_login
    matched,         \* the list the filter gives
    mpc,             \* which filter runs ("pulls", "issues", "reviews"), or "returned"
    \* a script run again and again on the output of its earlier runs
    api,             \* what the API holds: the listing and each repository's contributors
    run,             \* number of the run (0: runs are not counted)
    times            \* per repository of the listing: the earlier runs that entered it

fetchvars == <<pages, url, items, response, fpc, result, reqlog, sleptlog>>
storevars == <<csv_file, repo_data_list, processed_repos, loaded>>
listvars == <<repos, subgroups, gstack, ri, entered>>
repovars == <<contributors, languages, lang_status, ci, contributors_data, merge_requests,
              skipped>>
uservars == <<user_commits, pull_requests, issues, pulls, pi, reviews>>
runvars == <<storevars, listvars, repovars, uservars>>
progvars == <<script, pc, fetchvars, runvars>>
reposvars == <<listing, current_year, filtered_repos, gi, gpc>>
historyvars == <<commits, commit_history, hi, hpc>>
summaryvars == <<users, results, ui, reply, output_csv, spc>>
matchvars == <<activity, user_login, matched, mpc>>
runsvars == <<api, run, times>>
fnvars == <<reposvars, historyvars, summaryvars, matchvars, runsvars>>
vars == <<progvars, fnvars>>

----------------------------------------------------------------------------
(* Bounds of the model *)

\* longest chain of pages served for one fetch
MaxPages == 2
\* most items on one page of a resource fetched alone
MaxItems == 2
\* most repositories/projects in a listing
MaxRepos == 2
\* most contributors of a repository/project
MaxContribs == 2
\* deepest nesting of subgroups below the group
MaxDepth == 1

----------------------------------------------------------------------------
(* Program constants *)

\* HTTP status compared against in get_paginated_data / get_languages
StatusOK == 200
StatusForbidden == 403
\* low-water mark of the remaining quota
LowWater == 10
\* a falsy url: the loop "while url:" does not run
NoUrl == 0

Scripts == {"github", "gitlab"}

\* the statuses the API answers with: 200, 403 and one that is neither
Statuses == {StatusOK, StatusForbidden, 500}

\* The rate-limit headers of a response: absent, or present with a remaining
\* quota just below or at the low-water mark.
RateHeaders ==
    {[has |-> FALSE, remaining |-> 0]} \cup
    {[has |-> TRUE, remaining |-> r] : r \in {LowWater - 1, LowWater}}

NoResponse == [page |-> NoUrl, status |-> 0, data |-> <<>>, next |-> NoUrl,
               headers |-> [has |-> FALSE, remaining |-> 0]]

----------------------------------------------------------------------------
(* Sequences *)

RECURSIVE Flatten(_)
Flatten(ss) == IF ss = <<>> THEN <<>> ELSE Head(ss) \o Flatten(Tail(ss))

Range(s) == {s[i] : i \in DOMAIN s}

Last(s) == s[Len(s)]

----------------------------------------------------------------------------
(* The API as seen by one fetch *)

\* page i of the resource fetched alone (pc = "fetch") holds the items
\* <<i, 1>> .. <<i, n>>: every item of the chain is distinct, so a missing,
\* repeated or displaced item shows in the result
PageItems(i, n) == [k \in 1..n |-> <<i, k>>]

\* repository/project names of the listings
RepoTexts == {"alpha", "2024"}

\* the texts of the name column that pandas reads as numbers; "007" names a
\* repository of an earlier run that the listings no longer hold
NumericTexts == {"2024", "007", "7"}

\* str(int(t)): the text written for the number that the text t was read as
IntText(t) ==
    CASE t = "007" -> "7"
      [] OTHER -> t

\* a cell of the repo/project column as Python holds it
StrCell(t) == [kind |-> "str", text |-> t]
IntCell(t) == [kind |-> "int", text |-> t]

\* contributors of a repository (GitHub: login, in any order and number) or
\* of a project (GitLab: name, email and the account's username; a project's
\* listing holds the first k of them)
GithubContributors == {[login |-> "u"], [login |-> "v"]}
GitlabContributors ==
    <<[name |-> "u", email |-> "u@x", username |-> "jdoe"],
      [name |-> "v", email |-> "v@x", username |-> "vroe"]>>

\* the one record an activity resource holds
CommitRecord == [date |-> [year |-> 2023, month |-> 6, day |-> 1]]
PullRecord == [user |-> "u", number |-> 1]
IssueRecord == [user |-> "u"]
ReviewRecord == [user |-> "v"]
MergeRequestRecord == [author |-> [username |-> "u", name |-> "U "]]
MergeRequestByUsername == [author |-> [username |-> "Jdoe", name |-> "J"]]
GitlabIssueRecord == [author |-> [username |-> "v@x", name |-> "w"]]

\* the keys of the languages mapping
LanguageKeys == <<"Python">>

\* the item lists page u of the resource fetched at call site `site` may hold,
\* its : the items the call has read so far
ItemChoices(site, u, its) ==
    CASE site = "fetch" -> {PageItems(u, n) : n \in 0..MaxItems}
      [] site = "get_repos" ->
           IF Len(its) < MaxRepos
           THEN {<<>>} \cup {<<[name |-> t]>> : t \in RepoTexts}
           ELSE {<<>>}
      [] site = "projects" ->
           IF Len(repos) + Len(its) < MaxRepos
           THEN {<<>>} \cup {<<[id |-> Len(repos) + Len(its) + 1, name |-> t]>> :
                               t \in RepoTexts}
           ELSE {<<>>}
      [] site = "subgroups" ->
           IF Len(gstack) < MaxDepth THEN {<<>>, <<[id |-> "g"]>>} ELSE {<<>>}
      [] site = "contributors" ->
           IF Len(its) < MaxContribs
           THEN {<<>>} \cup
                (IF script = "github" THEN {<<c>> : c \in GithubContributors}
                 ELSE {<<GitlabContributors[(Len(its) % Len(GitlabContributors)) + 1]>>})
           ELSE {<<>>}
      [] site = "commits" -> {<<CommitRecord>>}
      [] site \in {"pulls", "review_pulls"} -> {<<PullRecord>>}
      [] site = "issues" ->
           {<<IF script = "github" THEN IssueRecord ELSE GitlabIssueRecord>>}
      [] site = "reviews" -> {<<ReviewRecord>>}
      [] site = "merge_requests" -> {<<MergeRequestRecord>>, <<MergeRequestByUsername>>}

\* whether page u of the resource fetched at `site` may carry a 'next' link
MayLink(site, u) ==
    /\ u < MaxPages
    /\ site \in {"fetch", "get_repos", "projects", "contributors"}

\* the pages the API may serve as page u of the resource fetched at `site`
PageChoices(site, u, sofar) ==
    {[items |-> its, status |-> st, next |-> nx] :
        its \in ItemChoices(site, u, sofar), st \in Statuses,
        nx \in {b \in BOOLEAN : b => MayLink(site, u)}}

\* response.links of page u: the link to page u+1, if the page carries one
NextLink(chain, u) == IF chain[u].next THEN u + 1 ELSE NoUrl

\* requests.get(url, headers=headers): the page addressed, with the
\* rate-limit headers h the server chose to send with it
Get(chain, u, h) ==
    [page |-> u, status |-> chain[u].status, data |-> chain[u].items,
     next |-> NextLink(chain, u), headers |-> h]

----------------------------------------------------------------------------
(* get_paginated_data *)

\* the comparison slipped to "remaining <= 10"
RateLimitedInclusive(resp) == resp.headers.has /\ resp.headers.remaining <= LowWater

\* 'X-RateLimit-Remaining' in response.headers and remaining < 10
RateLimited(resp) == resp.headers.has /\ resp.headers.remaining < LowWater

\* a 403 gives the empty list in every script
StatusOutcomeLenient(s, resp) ==
    IF resp.status = StatusForbidden THEN "empty"
    ELSE IF resp.status # StatusOK THEN "raise"
    ELSE "ok"

\* a 403 raises in every script
StatusOutcomeStrict(s, resp) ==
    IF resp.status # StatusOK THEN "raise" ELSE "ok"

\* what the status checks do with a response: "empty" (return []),
\* "raise" or "ok" (go on to read the data)
StatusOutcome(s, resp) ==
    IF s = "gitlab" /\ resp.status = StatusForbidden THEN "empty"
    ELSE IF resp.status # StatusOK THEN "raise"
    ELSE "ok"

\* "items = data" in place of items.extend(data)
ExtendOverwrite(its, data) == data

\* items.extend(data)
Extend(its, data) == its \o data

\* the link is never followed: the same URL is requested again
FollowLinkStuck(resp) == resp.page

\* after a sleep the same URL is requested again, its data already taken
FollowLinkResume(resp) ==
    IF resp.headers.has /\ resp.headers.remaining < LowWater
    THEN resp.page ELSE resp.next

\* the link is followed only when no sleep happened
FollowLinkDropAfterSleep(resp) ==
    IF resp.headers.has /\ resp.headers.remaining < LowWater
    THEN NoUrl ELSE resp.next

\* url = response.links['next']['url'] if 'next' in response.links, else break
FollowLink(resp) == resp.next

\* "return items" in place of "return []"
ForbiddenResultPartial(its) == its

\* GitLab, status 403: return []
ForbiddenResult(its) == <<>>

\* entry of get_paginated_data(url, headers): items = []
FetchCall ==
    /\ pages' = <<>>
    /\ url' = 1
    /\ items' = <<>>
    /\ response' = NoResponse
    /\ fpc' = "loop"
    /\ reqlog' = <<>>
    /\ sleptlog' = <<>>
    /\ UNCHANGED result

\* the locals of get_paginated_data are gone once the caller has its result
FetchDone ==
    /\ pages' = <<>>
    /\ url' = NoUrl
    /\ items' = <<>>
    /\ response' = NoResponse
    /\ fpc' = "idle"
    /\ reqlog' = <<>>
    /\ sleptlog' = <<>>
    /\ result' = <<>>

\* while url: response = requests.get(url, headers=headers)
\* (a page requested for the first time is served as the API chooses, a page
\* requested again is served as before)
FetchRequest ==
    /\ fpc = "loop"
    /\ url # NoUrl
    /\ \E h \in RateHeaders :
         IF url <= Len(pages)
         THEN /\ pages' = pages
              /\ response' = Get(pages, url, h)
         ELSE \E pg \in PageChoices(pc, url, items) :
              /\ pages' = Append(pages, pg)
              /\ response' = Get(pages', url, h)
    /\ reqlog' = Append(reqlog, url)
    /\ fpc' = "received"
    /\ UNCHANGED <<script, pc, url, items, result, sleptlog, runvars>>
    /\ UNCHANGED fnvars

\* the rate-limit check finds a low quota: time.sleep(sleep_time)
FetchSleep ==
    /\ fpc = "received"
    /\ RateLimited(response)
    /\ sleptlog' = Append(sleptlog, url)
    /\ fpc' = "slept"
    /\ UNCHANGED <<script, pc, pages, url, items, response, result, reqlog, runvars>>
    /\ UNCHANGED fnvars

\* the rest of the loop body: status checks, items.extend, next link
FetchHandle ==
    /\ \/ fpc = "slept"
       \/ fpc = "received" /\ ~RateLimited(response)
    /\ LET outcome == StatusOutcome(script, response) IN
       CASE outcome = "empty" ->
              /\ result' = ForbiddenResult(items)
              /\ fpc' = "returned"
              /\ UNCHANGED <<url, items>>
         [] outcome = "raise" ->
              /\ fpc' = "raised"
              /\ UNCHANGED <<url, items, result>>
         [] OTHER ->
              /\ items' = Extend(items, response.data)
              /\ IF FollowLink(response) # NoUrl
                 THEN /\ url' = FollowLink(response)
                      /\ fpc' = "loop"
                      /\ UNCHANGED result
                 ELSE /\ result' = items'
                      /\ fpc' = "returned"
                      /\ UNCHANGED url
    /\ UNCHANGED <<script, pc, pages, response, reqlog, sleptlog, runvars>>
    /\ UNCHANGED fnvars

----------------------------------------------------------------------------
(* The output file *)

\* the column of the output rows that names the repository/project
NameOf(s, row) == IF s = "github" THEN row.repo ELSE row.project

WithName(s, row, v) ==
    IF s = "github" THEN [row EXCEPT !.repo = v] ELSE [row EXCEPT !.project = v]

\* df.to_csv: a cell of the name column is written as its text
to_csv(s, rows) == [i \in DOMAIN rows |-> WithName(s, rows[i], NameOf(s, rows[i]).text)]

\* pd.read_csv(...).to_dict(orient='records'): the name column is read as
\* numbers when every cell of it is the text of a number, as strings otherwise
read_csv(s, rows) ==
    LET numeric == \A i \in DOMAIN rows : NameOf(s, rows[i]) \in NumericTexts IN
    [i \in DOMAIN rows |->
        WithName(s, rows[i], IF numeric THEN IntCell(IntText(NameOf(s, rows[i])))
                             ELSE StrCell(NameOf(s, rows[i])))]

\* the set is built from the 'user' column
ProcessedNamesByUser(s, rows) ==
    {StrCell(IF s = "github" THEN rows[i].user ELSE rows[i].name) : i \in DOMAIN rows}

\* set([repo['repo'] for repo in repo_data_list])
ProcessedNames(s, rows) == {NameOf(s, rows[i]) : i \in DOMAIN rows}

\* repo_name in processed_repos
AlreadyProcessed(s, name, processed) == StrCell(name) \in processed

\* commit_date.strftime('%Y-%m') of the parsed timestamp of a commit
MonthKey(commit) == <<commit.date.year, commit.date.month>>

\* a dict is the sequence of its entries in insertion order
HasKey(dict, key) == \E i \in DOMAIN dict : dict[i].key = key

\* "commit_history[month_year] = 1" in place of "+= 1"
CountCommitOnce(dict, commit) ==
    IF HasKey(dict, MonthKey(commit))
    THEN [i \in DOMAIN dict |->
             IF dict[i].key = MonthKey(commit) THEN [dict[i] EXCEPT !.count = 1]
             ELSE dict[i]]
    ELSE Append(dict, [key |-> MonthKey(commit), count |-> 1])

\* commit_history[month_year] += 1 on a defaultdict(int)
CountCommit(dict, commit) ==
    IF HasKey(dict, MonthKey(commit))
    THEN [i \in DOMAIN dict |->
             IF dict[i].key = MonthKey(commit) THEN [dict[i] EXCEPT !.count = @ + 1]
             ELSE dict[i]]
    ELSE Append(dict, [key |-> MonthKey(commit), count |-> 1])

\* the loop of get_commit_history_by_month from commit k on, dict being
\* commit_history so far
RECURSIVE CountFrom(_, _, _)
CountFrom(cs, k, dict) ==
    IF k > Len(cs) THEN dict
    ELSE CountFrom(cs, k + 1, CountCommit(dict, cs[k]))

\* get_commit_history_by_month(commits)
get_commit_history_by_month(cs) == CountFrom(cs, 1, <<>>)

\* the row names the first contributor of the repository, whoever it is for
GithubRowFirstUser(name, login, cs, prs, iss, revs, langs) ==
    [org |-> "org", repo |-> StrCell(name), user |-> contributors[1].login,
     commits |-> Len(cs),
     commit_history |-> get_commit_history_by_month(cs),
     pull_requests |-> Len(prs), issues |-> Len(iss), reviews |-> Len(revs),
     languages |-> langs]

\* the row appended for a contributor of a GitHub repository
GithubRow(name, login, cs, prs, iss, revs, langs) ==
    [org |-> "org", repo |-> StrCell(name), user |-> login, commits |-> Len(cs),
     commit_history |-> get_commit_history_by_month(cs),
     pull_requests |-> Len(prs), issues |-> Len(iss), reviews |-> Len(revs),
     languages |-> langs]

\* the entry of contributors_data for a contributor of a GitLab project
GitlabRow(project, contributor, cs, langs) ==
    [group |-> "group", project_id |-> project.id, project |-> StrCell(project.name),
     name |-> contributor.name, email |-> contributor.email,
     commits |-> Len(cs),
     commit_history |-> get_commit_history_by_month(cs),
     languages |-> langs, merge_requests |-> 0, issues |-> 0]

\* s.strip().lower() on the strings of the model
Normalize(str) ==
    CASE str = "U " -> "u"
      [] str = "Jdoe" -> "jdoe"
      [] str = "J" -> "j"
      [] str = "JDoe" -> "jdoe"
      [] str = " jdoe" -> "jdoe"
      [] OTHER -> str

\* contributor.get('username', '')
UsernameOf(entry) == IF "username" \in DOMAIN entry THEN entry.username ELSE ""

\* whether an activity record's author matches a contributor entry
AuthorMatches(record, entry) ==
    \/ Normalize(record.author.username) = Normalize(UsernameOf(entry))
    \/ Normalize(record.author.name) = Normalize(entry.name)
    \/ Normalize(record.author.username) = Normalize(entry.email)

\* combine_mrs_and_issues(contributors_data, merge_requests, issues)
combine_mrs_and_issues(entries, mrs, iss) ==
    [i \in DOMAIN entries |->
        [entries[i] EXCEPT
           !.merge_requests =
               Cardinality({k \in DOMAIN mrs : AuthorMatches(mrs[k], entries[i])}),
           !.issues =
               Cardinality({k \in DOMAIN iss : AuthorMatches(iss[k], entries[i])})]]

\* the logins are trimmed and lower-cased before they are compared
ByLoginNormalized(records, login) ==
    SelectSeq(records, LAMBDA x : Normalize(x.user) = Normalize(login))

\* [x for x in records if x['user']['login'] == user_login]
ByLogin(records, login) == SelectSeq(records, LAMBDA x : x.user = login)

\* a row as an earlier run of the script left it on disk
DiskRow(s, t, who) ==
    IF s = "github"
    THEN [org |-> "org", repo |-> t, user |-> who, commits |-> 1,
          commit_history |-> <<[key |-> <<2023, 6>>, count |-> 1]>>, pull_requests |-> 0,
          issues |-> 0, reviews |-> 0, languages |-> LanguageKeys]
    ELSE [group |-> "group", project_id |-> 1, project |-> t, name |-> who,
          email |-> "u@x", commits |-> 1,
          commit_history |-> <<[key |-> <<2023, 6>>, count |-> 1]>>, languages |-> LanguageKeys,
          merge_requests |-> 0, issues |-> 0]

\* the output file a run may find: none, one an earlier run wrote without
\* any row, or one holding rows of earlier runs
PriorFiles(s) ==
    {[exists |-> FALSE, rows |-> <<>>], [exists |-> TRUE, rows |-> <<>>]} \cup
    {[exists |-> TRUE, rows |-> r] :
        r \in {<<DiskRow(s, "alpha", "u")>>, <<DiskRow(s, "2024", "u")>>,
               <<DiskRow(s, "007", "u")>>,
               <<DiskRow(s, "alpha", "u"), DiskRow(s, "2024", "u")>>}}

----------------------------------------------------------------------------
(* The scripts *)

\* what get_languages does with a response of status st: "empty" (return []),
\* "raise" or "ok" (return the keys)
LanguagesOutcome(s, st) ==
    IF s = "gitlab" /\ st = StatusForbidden THEN "empty"
    ELSE IF st # StatusOK THEN "raise"
    ELSE "ok"

\* the try/except around a contributor's commits is missing
HandlerProjectOnly(s, site) ==
    IF s = "gitlab" /\ site \in {"contributors", "languages"} THEN "skip_project"
    ELSE "abort"

\* which try/except, if any, catches an exception raised at call site `site`:
\* none in the GitHub scripts; in the GitLab script the one around
\* get_contributors/get_languages and the one around a contributor's commits
Handler(s, site) ==
    IF s = "gitlab" /\ site \in {"contributors", "languages"} THEN "skip_project"
    ELSE IF s = "gitlab" /\ site = "commits" THEN "skip_contributor"
    ELSE "abort"

\* the variables of one contributor hold nothing
NoUser(uc, prs, iss, pls, p, revs) ==
    /\ uc = <<>> /\ prs = <<>> /\ iss = <<>>
    /\ pls = <<>> /\ p = 0 /\ revs = <<>>

\* the variables of one repository/project hold nothing
NoRepo(cs, langs, ls, c, cd, mrs, sk) ==
    /\ cs = <<>> /\ langs = <<>> /\ ls = 0
    /\ c = 0 /\ cd = <<>> /\ mrs = <<>> /\ sk = {}

ResetUser == NoUser(user_commits', pull_requests', issues', pulls', pi', reviews')

ResetRepo ==
    NoRepo(contributors', languages', lang_status', ci', contributors_data',
           merge_requests', skipped')

\* load_existing_data, processed_repos, and the call that lists the
\* repositories (get_repos) or the group's projects (get_subgroups_and_projects)
Startup ==
    /\ pc = "start"
    /\ IF csv_file.exists /\ csv_file.rows = <<>>
       THEN \* pd.read_csv raises EmptyDataError, which is not caught
            /\ pc' = "aborted"
            /\ UNCHANGED <<fetchvars, repo_data_list, processed_repos, loaded>>
       ELSE /\ repo_data_list' = read_csv(script, csv_file.rows)
            /\ processed_repos' = ProcessedNames(script, repo_data_list')
            /\ loaded' = repo_data_list'
            /\ pc' = IF script = "github" THEN "get_repos" ELSE "subgroups"
            /\ FetchCall
    /\ UNCHANGED <<script, csv_file, listvars, repovars, uservars>>
    /\ UNCHANGED fnvars

\* get_repos: repo_names = [repo['name'] for repo in repos]
RetRepos ==
    /\ pc = "get_repos" /\ fpc = "returned"
    /\ repos' = result
    /\ ri' = 1
    /\ pc' = "loop"
    /\ FetchDone
    /\ UNCHANGED <<script, storevars, subgroups, gstack, entered, repovars, uservars>>
    /\ UNCHANGED fnvars

\* get_subgroups_and_projects: subgroups = get_paginated_data(subgroups_url)
RetSubgroups ==
    /\ pc = "subgroups" /\ fpc = "returned"
    /\ subgroups' = result
    /\ pc' = "projects"
    /\ FetchCall
    /\ UNCHANGED <<script, storevars, repos, gstack, ri, entered, repovars, uservars>>
    /\ UNCHANGED fnvars

\* get_subgroups_and_projects: all_projects.extend(projects), then the loop
\* over the subgroups starts
RetProjects ==
    /\ pc = "projects" /\ fpc = "returned"
    /\ repos' = repos \o result
    /\ gstack' = Append(gstack, subgroups)
    /\ subgroups' = <<>>
    /\ pc' = "descend"
    /\ FetchDone
    /\ UNCHANGED <<script, storevars, ri, entered, repovars, uservars>>
    /\ UNCHANGED fnvars

\* for subgroup in subgroups: all_projects.extend(get_subgroups_and_projects(...))
Descend ==
    /\ pc = "descend"
    /\ LET top == Last(gstack) IN
       IF top # <<>>
       THEN /\ gstack' = [gstack EXCEPT ![Len(gstack)] = Tail(top)]
            /\ pc' = "subgroups"
            /\ FetchCall
            /\ UNCHANGED ri
       ELSE /\ gstack' = SubSeq(gstack, 1, Len(gstack) - 1)
            /\ IF gstack' = <<>>
               THEN pc' = "loop" /\ ri' = 1
               ELSE pc' = "descend" /\ UNCHANGED ri
            /\ UNCHANGED fetchvars
    /\ UNCHANGED <<script, storevars, repos, subgroups, entered, repovars, uservars>>
    /\ UNCHANGED fnvars

\* the main loop is over: "Processing completed!"
Finish ==
    /\ pc = "loop"
    /\ ri > Len(repos)
    /\ pc' = "done"
    /\ UNCHANGED <<script, fetchvars, runvars>>
    /\ UNCHANGED fnvars

\* if repo_name in processed_repos: continue
SkipRepo ==
    /\ pc = "loop"
    /\ ri <= Len(repos)
    /\ AlreadyProcessed(script, repos[ri].name, processed_repos)
    /\ ri' = ri + 1
    /\ UNCHANGED <<script, pc, fetchvars, storevars, repos, subgroups, gstack,
                   entered, repovars, uservars>>
    /\ UNCHANGED fnvars

\* contributors = get_contributors(...)
BeginRepo ==
    /\ pc = "loop"
    /\ ri <= Len(repos)
    /\ ~AlreadyProcessed(script, repos[ri].name, processed_repos)
    /\ entered' = entered \cup {ri}
    /\ pc' = "contributors"
    /\ ResetRepo
    /\ FetchCall
    /\ UNCHANGED <<script, storevars, repos, subgroups, gstack, ri, uservars>>
    /\ UNCHANGED fnvars

\* contributors is assigned; next comes get_languages
RetContributors ==
    /\ pc = "contributors" /\ fpc = "returned"
    /\ contributors' = result
    /\ pc' = "languages"
    /\ FetchDone
    /\ UNCHANGED <<script, storevars, listvars, languages, lang_status, ci,
                   contributors_data, merge_requests, skipped, uservars>>
    /\ UNCHANGED fnvars

\* languages = get_languages(...): one request, no rate-limit check
GetLanguages ==
    /\ pc = "languages"
    /\ \E st \in Statuses :
         /\ lang_status' = st
         /\ LET outcome == LanguagesOutcome(script, st) IN
            CASE outcome = "raise" /\ Handler(script, "languages") = "skip_project" ->
                   /\ pc' = "loop"
                   /\ ri' = ri + 1
                   /\ contributors' = <<>>
                   /\ UNCHANGED <<languages, ci>>
              [] outcome = "raise" /\ Handler(script, "languages") # "skip_project" ->
                   /\ pc' = "aborted"
                   /\ UNCHANGED <<ri, contributors, languages, ci>>
              [] OTHER ->
                   /\ languages' = IF outcome = "empty" THEN <<>> ELSE LanguageKeys
                   /\ pc' = "contributor_loop"
                   /\ ci' = 1
                   /\ UNCHANGED <<ri, contributors>>
    /\ UNCHANGED <<script, fetchvars, storevars, repos, subgroups, gstack, entered,
                   contributors_data, merge_requests, skipped, uservars>>
    /\ UNCHANGED fnvars

\* for contributor in contributors: user_commits = get_commits(...)
BeginContributor ==
    /\ pc = "contributor_loop"
    /\ ci <= Len(contributors)
    /\ pc' = "commits"
    /\ FetchCall
    /\ UNCHANGED <<script, runvars>>
    /\ UNCHANGED fnvars

\* user_commits is assigned.  GitHub: get_pull_requests is called next.
\* GitLab: the contributor's entry is appended to contributors_data.
RetCommits ==
    /\ pc = "commits" /\ fpc = "returned"
    /\ IF script = "github"
       THEN /\ user_commits' = result
            /\ pc' = "pulls"
            /\ FetchCall
            /\ UNCHANGED <<ci, contributors_data>>
       ELSE /\ contributors_data' =
                Append(contributors_data,
                       GitlabRow(repos[ri], contributors[ci], result, languages))
            /\ ci' = ci + 1
            /\ pc' = "contributor_loop"
            /\ FetchDone
            /\ UNCHANGED user_commits
    /\ UNCHANGED <<script, storevars, listvars, contributors, languages, lang_status,
                   merge_requests, skipped, pull_requests, issues, pulls, pi, reviews>>
    /\ UNCHANGED fnvars

\* get_pull_requests: the pulls of the contributor; get_issues is called next
RetPulls ==
    /\ pc = "pulls" /\ fpc = "returned"
    /\ pull_requests' = ByLogin(result, contributors[ci].login)
    /\ pc' = "issues"
    /\ FetchCall
    /\ UNCHANGED <<script, storevars, listvars, repovars, user_commits, issues,
                   pulls, pi, reviews>>
    /\ UNCHANGED fnvars

\* GitHub get_issues: the issues of the contributor; get_reviews is called next
RetIssuesGithub ==
    /\ script = "github"
    /\ pc = "issues" /\ fpc = "returned"
    /\ issues' = ByLogin(result, contributors[ci].login)
    /\ pc' = "review_pulls"
    /\ FetchCall
    /\ UNCHANGED <<script, storevars, listvars, repovars, user_commits,
                   pull_requests, pulls, pi, reviews>>
    /\ UNCHANGED fnvars

\* get_reviews: pulls is assigned, reviews = []
RetReviewPulls ==
    /\ pc = "review_pulls" /\ fpc = "returned"
    /\ pulls' = result
    /\ pi' = 1
    /\ reviews' = <<>>
    /\ pc' = "review_loop"
    /\ FetchDone
    /\ UNCHANGED <<script, storevars, listvars, repovars, user_commits,
                   pull_requests, issues>>
    /\ UNCHANGED fnvars

\* get_reviews: for pr in pulls: pr_reviews = get_paginated_data(review_url)
BeginReview ==
    /\ pc = "review_loop"
    /\ pi <= Len(pulls)
    /\ pc' = "reviews"
    /\ FetchCall
    /\ UNCHANGED <<script, runvars>>
    /\ UNCHANGED fnvars

\* get_reviews: reviews.extend(pr_reviews)
RetReviews ==
    /\ pc = "reviews" /\ fpc = "returned"
    /\ reviews' = reviews \o result
    /\ pi' = pi + 1
    /\ pc' = "review_loop"
    /\ FetchDone
    /\ UNCHANGED <<script, storevars, listvars, repovars, user_commits,
                   pull_requests, issues, pulls>>
    /\ UNCHANGED fnvars

\* get_reviews returns; the reviews of the contributor are kept and the
\* contributor's row is appended to repo_data_list
AppendRow ==
    /\ pc = "review_loop"
    /\ pi > Len(pulls)
    /\ repo_data_list' =
         Append(repo_data_list,
                GithubRow(repos[ri].name, contributors[ci].login, user_commits,
                          pull_requests, issues,
                          ByLogin(reviews, contributors[ci].login), languages))
    /\ ci' = ci + 1
    /\ pc' = "contributor_loop"
    /\ ResetUser
    /\ UNCHANGED <<script, fetchvars, csv_file, processed_repos, loaded, listvars,
                   contributors, languages, lang_status, contributors_data,
                   merge_requests, skipped>>
    /\ UNCHANGED fnvars

\* GitHub, after the last contributor: save_progress(repo_data_list, csv_file)
SaveGithub ==
    /\ script = "github"
    /\ pc = "contributor_loop"
    /\ ci > Len(contributors)
    /\ csv_file' = [exists |-> TRUE, rows |-> to_csv(script, repo_data_list)]
    /\ ri' = ri + 1
    /\ pc' = "loop"
    /\ ResetRepo
    /\ UNCHANGED <<script, fetchvars, repo_data_list, processed_repos, loaded, repos,
                   subgroups, gstack, entered, uservars>>
    /\ UNCHANGED fnvars

\* GitLab, after the last contributor: merge_requests = get_merge_requests(...)
BeginMergeRequests ==
    /\ script = "gitlab"
    /\ pc = "contributor_loop"
    /\ ci > Len(contributors)
    /\ pc' = "merge_requests"
    /\ FetchCall
    /\ UNCHANGED <<script, runvars>>
    /\ UNCHANGED fnvars

\* merge_requests is assigned; issues = get_issues(...) is called next
RetMergeRequests ==
    /\ pc = "merge_requests" /\ fpc = "returned"
    /\ merge_requests' = result
    /\ pc' = "issues"
    /\ FetchCall
    /\ UNCHANGED <<script, storevars, listvars, contributors, languages, lang_status,
                   ci, contributors_data, skipped, uservars>>
    /\ UNCHANGED fnvars

\* GitLab: issues is assigned; combine_mrs_and_issues, repo_data_list.extend
\* and save_progress follow
SaveGitlab ==
    /\ script = "gitlab"
    /\ pc = "issues" /\ fpc = "returned"
    /\ repo_data_list' =
         repo_data_list \o
            combine_mrs_and_issues(contributors_data, merge_requests, result)
    /\ csv_file' = [exists |-> TRUE, rows |-> to_csv(script, repo_data_list')]
    /\ ri' = ri + 1
    /\ pc' = "loop"
    /\ ResetRepo
    /\ FetchDone
    /\ UNCHANGED <<script, processed_repos, loaded, repos, subgroups, gstack, entered,
                   uservars>>
    /\ UNCHANGED fnvars

\* get_paginated_data raised: the exception reaches the try/except around
\* the call, or ends the run when there is none
Raise ==
    /\ fpc = "raised"
    /\ pc \notin {"fetch", "aborted"}
    /\ LET h == Handler(script, pc) IN
       CASE h = "skip_project" ->
              /\ pc' = "loop"
              /\ ri' = ri + 1
              /\ ResetRepo
              /\ FetchDone
         [] h = "skip_contributor" ->
              /\ pc' = "contributor_loop"
              /\ ci' = ci + 1
              /\ skipped' = skipped \cup {ci}
              /\ FetchDone
              /\ UNCHANGED <<ri, contributors, languages, lang_status,
                             contributors_data, merge_requests>>
         [] OTHER ->
              /\ pc' = "aborted"
              /\ UNCHANGED <<fetchvars, ri, repovars>>
    /\ UNCHANGED <<script, storevars, repos, subgroups, gstack, entered, uservars>>
    /\ UNCHANGED fnvars

\* get_repos is not running
ReposIdle ==
    /\ listing = <<>> /\ current_year = 0 /\ filtered_repos = <<>>
    /\ gi = 0 /\ gpc = "idle"

\* get_commit_history_by_month is not running on its own
HistoryIdle ==
    commits = <<>> /\ commit_history = <<>> /\ hi = 0 /\ hpc = "idle"

\* no reply of the GraphQL API is held
NoReply == [kind |-> "none"]

\* generate_summary is not running
SummaryIdle ==
    /\ users = <<>> /\ results = <<>> /\ ui = 0 /\ reply = NoReply
    /\ output_csv = [exists |-> FALSE, rows |-> <<>>] /\ spc = "idle"

\* no filter by login is running on its own
MatchIdle == activity = <<>> /\ user_login = "" /\ matched = <<>> /\ mpc = "idle"

\* the runs are not counted and the API is not fixed
RunsIdle == api = [listing |-> <<>>, ncontrib |-> <<>>] /\ run = 0 /\ times = <<>>

\* the functions checked on their own are not running
FnIdle == ReposIdle /\ HistoryIdle /\ SummaryIdle /\ MatchIdle /\ RunsIdle

\* a script is started on the output file it finds
RunInit ==
    /\ script \in Scripts
    /\ pc = "start"
    /\ pages = <<>>
    /\ url = NoUrl
    /\ items = <<>>
    /\ response = NoResponse
    /\ fpc = "idle"
    /\ result = <<>>
    /\ reqlog = <<>>
    /\ sleptlog = <<>>
    /\ csv_file \in PriorFiles(script)
    /\ repo_data_list = <<>>
    /\ processed_repos = {}
    /\ loaded = <<>>
    /\ repos = <<>>
    /\ subgroups = <<>>
    /\ gstack = <<>>
    /\ ri = 0
    /\ entered = {}
    /\ NoRepo(contributors, languages, lang_status, ci, contributors_data, merge_requests,
              skipped)
    /\ NoUser(user_commits, pull_requests, issues, pulls, pi, reviews)

Init == FnIdle /\ RunInit

Next ==
    \/ Startup
    \/ FetchRequest
    \/ FetchSleep
    \/ FetchHandle
    \/ Raise
    \/ RetRepos
    \/ RetSubgroups
    \/ RetProjects
    \/ Descend
    \/ Finish
    \/ SkipRepo
    \/ BeginRepo
    \/ RetContributors
    \/ GetLanguages
    \/ BeginContributor
    \/ RetCommits
    \/ RetPulls
    \/ RetIssuesGithub
    \/ RetReviewPulls
    \/ BeginReview
    \/ RetReviews
    \/ AppendRow
    \/ SaveGithub
    \/ BeginMergeRequests
    \/ RetMergeRequests
    \/ SaveGitlab

Spec == Init /\ [][Next]_vars

----------------------------------------------------------------------------
(* One call of get_paginated_data *)

InitFetch ==
    /\ FnIdle
    /\ script \in Scripts
    /\ pc = "fetch"
    /\ pages = <<>>
    /\ url = 1
    /\ items = <<>>
    /\ response = NoResponse
    /\ fpc = "loop"
    /\ result = <<>>
    /\ reqlog = <<>>
    /\ sleptlog = <<>>
    /\ csv_file = [exists |-> FALSE, rows |-> <<>>]
    /\ repo_data_list = <<>>
    /\ processed_repos = {}
    /\ loaded = <<>>
    /\ repos = <<>>
    /\ subgroups = <<>>
    /\ gstack = <<>>
    /\ ri = 0
    /\ entered = {}
    /\ NoRepo(contributors, languages, lang_status, ci, contributors_data, merge_requests,
              skipped)
    /\ NoUser(user_commits, pull_requests, issues, pulls, pi, reviews)

NextFetch ==
    \/ FetchRequest
    \/ FetchSleep
    \/ FetchHandle

SpecFetch == InitFetch /\ [][NextFetch]_vars

SpecFetchFair == SpecFetch /\ WF_vars(NextFetch)

----------------------------------------------------------------------------
(* Claims about one call of get_paginated_data (SpecFetch) *)

AllOK(chain) == \A i \in DOMAIN chain : chain[i].status = StatusOK

ChainItems(chain) == Flatten([i \in DOMAIN chain |-> chain[i].items])

Occurrences(s, x) == Cardinality({i \in DOMAIN s : s[i] = x})

\* the chain was served to its end: its last page carries no 'next' link
Complete(chain) == chain # <<>> /\ ~Last(chain).next

\* What the call does with a chain of pages when the rate-limit headers are
\* left out of account: the pages are read in order from page u on, acc
\* holding what was read so far.
RECURSIVE Reference(_, _, _, _)
Reference(s, chain, u, acc) ==
    IF u > Len(chain)
    THEN [outcome |-> "unserved", items |-> acc]
    ELSE IF s = "gitlab" /\ chain[u].status = StatusForbidden
    THEN [outcome |-> "return", items |-> <<>>]
    ELSE IF chain[u].status # StatusOK
    THEN [outcome |-> "raise", items |-> <<>>]
    ELSE IF chain[u].next
    THEN Reference(s, chain, u + 1, acc \o chain[u].items)
    ELSE [outcome |-> "return", items |-> acc \o chain[u].items]

\* C1: when every page response has status 200, get_paginated_data returns
\* exactly the concatenation of the items of all pages of the chain, in page
\* order and in the order of the items inside each page.
C1_Concatenation ==
    (fpc = "returned" /\ AllOK(pages)) =>
        (Complete(pages) /\ result = ChainItems(pages))

C1_Witness ==
    /\ fpc = "returned"
    /\ AllOK(pages)
    /\ Len(pages) >= 2
    /\ \A i \in DOMAIN pages : Len(pages[i].items) >= 2
    /\ result = ChainItems(pages)

\* C2: on a finite chain of pages the pagination loop terminates; the
\* requests of a call go to pages 1, 2, 3, ... one request each; no request
\* follows a response without a 'next' link; and a call that reads every
\* page with status 200 has issued exactly one request per page.
C2_Terminates ==
    /\ <>(fpc \in {"returned", "raised"})
    /\ [](reqlog = [i \in 1..Len(reqlog) |-> i])
    /\ []((fpc = "returned" /\ AllOK(pages)) =>
            (Complete(pages) /\ Len(reqlog) = Len(pages)))
    /\ [][(response # NoResponse /\ response.next = NoUrl) => reqlog' = reqlog]_vars

C2_Witness ==
    /\ fpc = "returned"
    /\ Len(pages) >= 2
    /\ reqlog = [i \in 1..Len(pages) |-> i]
    /\ response.next = NoUrl

\* C3: after a response the call sleeps if and only if the response carries
\* the remaining-quota header with a value below 10.
C3_SleepIff ==
    [][fpc = "received" =>
         ((fpc' = "slept") <=>
            (response.headers.has /\ response.headers.remaining < 10))]_vars

\* a call that slept after page 1 (remaining 9) and not after page 2
\* (remaining 10)
C3_Witness ==
    /\ fpc = "returned"
    /\ reqlog = <<1, 2>>
    /\ sleptlog = <<1>>
    /\ response.headers.has
    /\ response.headers.remaining = 10

\* C4: a call during which one or more sleeps happened returns the list the
\* same page responses give without any sleep, and every item of a response
\* that triggered a sleep is in a non-empty result exactly once.
C4_NoLossNoDuplication ==
    (fpc = "returned" /\ sleptlog # <<>>) =>
        /\ Reference(script, pages, 1, <<>>) = [outcome |-> "return", items |-> result]
        /\ result # <<>> =>
             \A p \in Range(sleptlog) : \A x \in Range(pages[p].items) :
                 Occurrences(result, x) = 1

C4_Witness ==
    /\ fpc = "returned"
    /\ Len(sleptlog) >= 2
    /\ \A p \in Range(sleptlog) : pages[p].items # <<>>
    /\ result # <<>>

\* C5 as stated: the first request issued after a sleep is addressed to the
\* URL whose response exposed the low remaining quota.
C5_ResumesSameUrl ==
    [][(Len(reqlog') = Len(reqlog) + 1 /\ sleptlog # <<>>
          /\ Last(sleptlog) = response.page)
         => Last(reqlog') = response.page]_vars

\* C5 (amended): after a sleep the call goes on with the response it already
\* holds and does not request that URL again; the first request it issues
\* after the sleep, if any, is addressed to the 'next' link of the response
\* that exposed the low remaining quota.
C5_ResumesWithNextLink ==
    [][/\ fpc = "slept" => (fpc' # "received" /\ reqlog' = reqlog)
       /\ (Len(reqlog') = Len(reqlog) + 1 /\ sleptlog # <<>>
             /\ Last(sleptlog) = response.page)
            => (Last(reqlog') = response.next /\ Last(reqlog') # response.page)]_vars

\* the request that follows a sleep has just been issued
C5_Witness ==
    /\ fpc = "received"
    /\ reqlog = <<1, 2>>
    /\ sleptlog = <<1>>

----------------------------------------------------------------------------
(* Claims about a run of a script (Spec) *)

\* a response other than 200 is held: the last response of the running
\* get_paginated_data call, or the languages response of the repository
BadResponse ==
    \/ fpc \in {"received", "slept", "raised"} /\ response.status # 200
    \/ lang_status \notin {0, 200}

\* the names in the rows load_existing_data returned
LoadedNames == {NameOf(script, loaded[i]) : i \in DOMAIN loaded}

\* C6: in the GitHub REST scripts a response with a status other than 200,
\* from a paginated fetch or from the languages request, ends the run: the
\* exception is raised and reaches the top level, and from the response on
\* no request is issued, no repository is entered and nothing is saved.
C6_GithubNon200Aborts ==
    [][(script = "github" /\ BadResponse) =>
          /\ BadResponse'
          /\ fpc = "raised" => pc' = "aborted"
          /\ fpc \in {"received", "slept"} => fpc' \in {"slept", "raised"}
          /\ lang_status \notin {0, 200} => pc = "aborted"
          /\ reqlog' = reqlog
          /\ lang_status' = lang_status
          /\ csv_file' = csv_file
          /\ repo_data_list' = repo_data_list
          /\ ri' = ri
          /\ entered' = entered]_vars

\* a run that ended on a 403 in its first repository, with a second
\* repository left and rows in memory that were never saved
C6_Witness ==
    /\ script = "github"
    /\ pc = "aborted"
    /\ fpc = "raised"
    /\ response.status = 403
    /\ ri = 1
    /\ Len(repos) = 2
    /\ repo_data_list # loaded

\* C7: in the GitLab script a 403 is not fatal: get_paginated_data returns
\* the empty list without raising, get_languages returns the empty list, and
\* the run goes on with the next step of the same project (languages after
\* contributors, the contributor loop after languages, the contributor's
\* entry with 0 commits after commits, issues after merge requests, and the
\* project's save after issues).
C7_GitlabForbiddenIsEmpty ==
    [][script = "gitlab" =>
          /\ (response.status = 403
                /\ (fpc = "slept" \/ (fpc = "received" /\ fpc' # "slept")))
               => (fpc' = "returned" /\ result' = <<>>)
          /\ (fpc = "returned" /\ response.status = 403) =>
               /\ pc = "contributors" =>
                    (pc' = "languages" /\ contributors' = <<>> /\ ri' = ri)
               /\ pc = "commits" =>
                    /\ pc' = "contributor_loop" /\ ri' = ri /\ ci' = ci + 1
                    /\ Len(contributors_data') = Len(contributors_data) + 1
                    /\ Last(contributors_data').commits = 0
               /\ pc = "merge_requests" =>
                    (pc' = "issues" /\ merge_requests' = <<>> /\ ri' = ri)
               /\ pc = "issues" =>
                    /\ pc' = "loop"
                    /\ Len(csv_file'.rows) =
                         Len(repo_data_list) + Len(contributors_data)
                    /\ \A k \in DOMAIN repo_data_list' :
                         k > Len(repo_data_list) => repo_data_list'[k].issues = 0
          /\ (pc = "languages" /\ lang_status' = 403) =>
               /\ pc' = "contributor_loop"
               /\ languages' = <<>>
               /\ ri' = ri
               /\ contributors' = contributors]_vars

\* get_languages answered 403, the run went on with the contributors, and
\* the commits request of a contributor answered 403 too
C7_Witness ==
    /\ script = "gitlab"
    /\ pc = "commits"
    /\ fpc = "returned"
    /\ response.status = 403
    /\ result = <<>>
    /\ lang_status = 403
    /\ languages = <<>>
    /\ Len(contributors) = 2

GitlabFatalSites == {"subgroups", "projects", "merge_requests", "issues"}

SaveStep == pc \in {"contributor_loop", "issues"} /\ pc' = "loop" /\ ri' = ri + 1

\* the rows the file holds after the step and not before it
NewRows == SubSeq(csv_file'.rows, Len(csv_file.rows) + 1, Len(csv_file'.rows))

\* the name of a contributor (GitHub: login) and of a row's user column
ContributorName(c) == IF script = "github" THEN c.login ELSE c.name
RowUser(row) == IF script = "github" THEN row.user ELSE row.name

\* the indices of the contributors whose commits request did not raise
Kept == {i \in DOMAIN contributors : i \notin skipped}

RowOf(row, r) ==
    /\ NameOf(script, row) = r.name
    /\ script = "gitlab" => row.project_id = r.id

\* the run ended on an exception raised inside the body of the main loop
AbortedInRepository ==
    pc = "aborted" /\ ri \in DOMAIN repos /\ ri \in entered

\* C11 as stated: the file changes only when the save of a repository/project
\* completes; no step changes a row the file already holds, so that every
\* loaded row stays in it unchanged; and when the run aborts inside a
\* repository the file holds no row of that repository.
C11_SavedRowsSurvive ==
    /\ [][csv_file' # csv_file => SaveStep]_vars
    /\ [][/\ Len(csv_file'.rows) >= Len(csv_file.rows)
          /\ \A i \in DOMAIN csv_file.rows : csv_file'.rows[i] = csv_file.rows[i]]_vars
    /\ [](AbortedInRepository =>
            \A i \in DOMAIN csv_file.rows : ~RowOf(csv_file.rows[i], repos[ri]))

----------------------------------------------------------------------------
(* get_repos of extract_users.py (the year filter), called on its own *)

\* most repositories in the listing handed to the filter
MaxListing == 2

\* start_year: the default of get_repos, which the script does not override
StartYear == 2017

\* the years the clock may give for datetime.now().year
CurrentYears == {2022, 2026}

\* Repository names, as the sequences of their characters: 2022.1-r, lib,
\* 2016.2, 2017, 2026.1, .2022, 2_022.1.x, -2022.1 and 2022-2
ListedNames ==
    {<<"2", "0", "2", "2", ".", "1", "-", "r">>,
     <<"l", "i", "b">>,
     <<"2", "0", "1", "6", ".", "2">>,
     <<"2", "0", "1", "7">>,
     <<"2", "0", "2", "6", ".", "1">>,
     <<".", "2", "0", "2", "2">>,
     <<"2", "_", "0", "2", "2", ".", "1", ".", "x">>,
     <<"-", "2", "0", "2", "2", ".", "1">>,
     <<"2", "0", "2", "2", "-", "2">>}

DigitChars == {"0", "1", "2", "3", "4", "5", "6", "7", "8", "9"}

DigitValue(c) ==
    CASE c = "0" -> 0 [] c = "1" -> 1 [] c = "2" -> 2 [] c = "3" -> 3
      [] c = "4" -> 4 [] c = "5" -> 5 [] c = "6" -> 6 [] c = "7" -> 7
      [] c = "8" -> 8 [] c = "9" -> 9

\* repo_name.split('.')[0]: the characters before the first '.', all of them
\* when there is none
RECURSIVE SplitHead(_)
SplitHead(cs) ==
    IF cs = <<>> \/ Head(cs) = "." THEN <<>>
    ELSE <<Head(cs)>> \o SplitHead(Tail(cs))

\* the number denoted by digits and underscores read left to right, acc
\* being the number read so far
RECURSIVE DigitsValue(_, _)
DigitsValue(cs, acc) ==
    IF cs = <<>> THEN acc
    ELSE IF Head(cs) = "_" THEN DigitsValue(Tail(cs), acc)
    ELSE DigitsValue(Tail(cs), 10 * acc + DigitValue(Head(cs)))

\* int(text) of Python on a text without whitespace: an optional sign, then
\* digits, single underscores allowed between digits; anything else raises
\* ValueError (ok = FALSE)
PyInt(cs) ==
    LET signed == cs # <<>> /\ Head(cs) \in {"+", "-"}
        body == IF signed THEN Tail(cs) ELSE cs
        wellformed ==
            /\ body # <<>>
            /\ \A i \in DOMAIN body : body[i] \in DigitChars \cup {"_"}
            /\ body[1] # "_" /\ body[Len(body)] # "_"
            /\ \A i \in 1..(Len(body) - 1) : ~(body[i] = "_" /\ body[i + 1] = "_")
    IN  IF ~wellformed THEN [ok |-> FALSE, value |-> 0]
        ELSE [ok |-> TRUE,
              value |-> IF signed /\ Head(cs) = "-" THEN 0 - DigitsValue(body, 0)
                        ELSE DigitsValue(body, 0)]

\* the bounds are taken as exclusive
YearInRangeExclusive(year, now) == StartYear < year /\ year < now

\* start_year <= year <= current_year
YearInRange(year, now) == StartYear <= year /\ year <= now

\* one iteration of "for repo in repos": the name is appended when the try
\* block gets through the test, and passed over on ValueError
GetReposFilter ==
    /\ gpc = "loop"
    /\ gi <= Len(listing)
    /\ LET repo_name == listing[gi]
           year == PyInt(SplitHead(repo_name))
       IN  filtered_repos' =
               IF year.ok /\ YearInRange(year.value, current_year)
               THEN Append(filtered_repos, repo_name)
               ELSE filtered_repos
    /\ gi' = gi + 1
    /\ UNCHANGED <<progvars, historyvars, summaryvars, matchvars, runsvars, listing, current_year, gpc>>

\* return filtered_repos
GetReposReturn ==
    /\ gpc = "loop"
    /\ gi > Len(listing)
    /\ gpc' = "returned"
    /\ UNCHANGED <<progvars, historyvars, summaryvars, matchvars, runsvars, listing, current_year, filtered_repos, gi>>

\* no script is running
ProgIdle ==
    /\ script = "github"
    /\ pc = "idle"
    /\ pages = <<>> /\ url = NoUrl /\ items = <<>> /\ response = NoResponse
    /\ fpc = "idle" /\ result = <<>> /\ reqlog = <<>> /\ sleptlog = <<>>
    /\ csv_file = [exists |-> FALSE, rows |-> <<>>]
    /\ repo_data_list = <<>> /\ processed_repos = {} /\ loaded = <<>>
    /\ repos = <<>> /\ subgroups = <<>> /\ gstack = <<>> /\ ri = 0 /\ entered = {}
    /\ NoRepo(contributors, languages, lang_status, ci, contributors_data, merge_requests,
              skipped)
    /\ NoUser(user_commits, pull_requests, issues, pulls, pi, reviews)

\* the listings of at most n names
ListingsUpTo(n) ==
    UNION {[1..k -> ListedNames] : k \in 0..n}

\* get_repos after get_paginated_data returned the listing and the clock was read
InitRepos ==
    /\ ProgIdle
    /\ HistoryIdle
    /\ SummaryIdle
    /\ MatchIdle
    /\ RunsIdle
    /\ listing \in ListingsUpTo(MaxListing)
    /\ current_year \in CurrentYears
    /\ filtered_repos = <<>>
    /\ gi = 1
    /\ gpc = "loop"

NextRepos ==
    \/ GetReposFilter
    \/ GetReposReturn

SpecRepos == InitRepos /\ [][NextRepos]_vars

\* p is the part of the name before its first '.'
IsYearPart(p, name) ==
    /\ Len(p) <= Len(name)
    /\ p = SubSeq(name, 1, Len(p))
    /\ \A i \in DOMAIN p : p[i] # "."
    /\ Len(p) = Len(name) \/ name[Len(p) + 1] = "."

\* the name passes the year filter
PassesFilter(name) ==
    \E k \in 0..Len(name) :
        LET p == SubSeq(name, 1, k) IN
        /\ IsYearPart(p, name)
        /\ PyInt(p).ok
        /\ 2017 <= PyInt(p).value
        /\ PyInt(p).value <= current_year

\* C12: get_repos never raises and returns the listed names that pass the
\* year filter (the part before the first '.' parses as an integer between
\* start_year and current_year), in the order of the listing; after each
\* iteration filtered_repos holds those among the names already visited.
C12_YearFilter ==
    /\ gpc \in {"loop", "returned"}
    /\ gpc = "loop" =>
         filtered_repos = SelectSeq(SubSeq(listing, 1, gi - 1), PassesFilter)
    /\ gpc = "returned" => filtered_repos = SelectSeq(listing, PassesFilter)

\* 2022.1-r is kept and lib is passed over, in a year in which 2022 is the
\* current year
C12_Witness ==
    /\ gpc = "returned"
    /\ current_year = 2022
    /\ listing = <<<<"l", "i", "b">>, <<"2", "0", "2", "2", ".", "1", "-", "r">>>>
    /\ filtered_repos = <<<<"2", "0", "2", "2", ".", "1", "-", "r">>>>

----------------------------------------------------------------------------
(* get_commit_history_by_month, called on its own *)

\* most commits in the list handed to get_commit_history_by_month
MaxCommits == 3

\* the author dates of commits, parsed from the timestamps the API emits:
\* 2023-06-01, 2023-06-15, 2023-07-01 and 2024-06-01
CommitDates ==
    {[year |-> 2023, month |-> 6, day |-> 1], [year |-> 2023, month |-> 6, day |-> 15],
     [year |-> 2023, month |-> 7, day |-> 1], [year |-> 2024, month |-> 6, day |-> 1]}

CommitListsUpTo(n) ==
    UNION {[1..k -> {[date |-> d] : d \in CommitDates}] : k \in 0..n}

\* one iteration of "for commit in commits"
HistoryCount ==
    /\ hpc = "loop"
    /\ hi <= Len(commits)
    /\ commit_history' = CountCommit(commit_history, commits[hi])
    /\ hi' = hi + 1
    /\ UNCHANGED <<progvars, reposvars, summaryvars, matchvars, runsvars, commits, hpc>>

\* return commit_history
HistoryReturn ==
    /\ hpc = "loop"
    /\ hi > Len(commits)
    /\ hpc' = "returned"
    /\ UNCHANGED <<progvars, reposvars, summaryvars, matchvars, runsvars, commits, commit_history, hi>>

\* entry of get_commit_history_by_month(commits): commit_history = defaultdict(int)
InitHistory ==
    /\ ProgIdle
    /\ ReposIdle
    /\ SummaryIdle
    /\ MatchIdle
    /\ RunsIdle
    /\ commits \in CommitListsUpTo(MaxCommits)
    /\ commit_history = <<>>
    /\ hi = 1
    /\ hpc = "loop"

NextHistory ==
    \/ HistoryCount
    \/ HistoryReturn

SpecHistory == InitHistory /\ [][NextHistory]_vars

\* the reorderings of a list of n elements
Reorderings(n) == {f \in [1..n -> 1..n] : \A i, j \in 1..n : f[i] = f[j] => i = j}

Reordered(cs, f) == [i \in DOMAIN cs |-> cs[f[i]]]

\* two dicts are equal as Python compares them: the same keys with the same
\* values, whatever the insertion order
SameMapping(d1, d2) == Range(d1) = Range(d2)

\* C13: the mapping get_commit_history_by_month returns is the same for every
\* reordering of the commits; its keys are the months (year and month) of the
\* commits' timestamps, each once, and the value of a key is the number of
\* commits of the list in that month.
C13_OrderIndependent ==
    hpc = "returned" =>
        /\ \A f \in Reorderings(Len(commits)) :
             SameMapping(get_commit_history_by_month(Reordered(commits, f)),
                         commit_history)
        /\ {commit_history[i].key : i \in DOMAIN commit_history} =
             {<<commits[i].date.year, commits[i].date.month>> : i \in DOMAIN commits}
        /\ \A i, j \in DOMAIN commit_history :
             commit_history[i].key = commit_history[j].key => i = j
        /\ \A i \in DOMAIN commit_history :
             commit_history[i].count =
                Cardinality({k \in DOMAIN commits :
                    <<commits[k].date.year, commits[k].date.month>> =
                        commit_history[i].key})

\* commits of 2023-06-15, 2023-07-01 and 2023-06-01, in this order, give
\* {2023-06: 2, 2023-07: 1}
C13_Witness ==
    /\ hpc = "returned"
    /\ commits = <<[date |-> [year |-> 2023, month |-> 6, day |-> 15]],
                   [date |-> [year |-> 2023, month |-> 7, day |-> 1]],
                   [date |-> [year |-> 2023, month |-> 6, day |-> 1]]>>
    /\ commit_history = <<[key |-> <<2023, 6>>, count |-> 2],
                          [key |-> <<2023, 7>>, count |-> 1]>>

----------------------------------------------------------------------------
(* Claims about the matching of activity records to contributors *)

\* the step of the GitLab script that combines and saves a project
CombineStep == script = "gitlab" /\ pc = "issues" /\ fpc = "returned" /\ pc' = "loop"

\* the records of a list whose author's username is the contributor's,
\* after trimming and lower-casing
ByUsername(records, c) ==
    {k \in DOMAIN records :
        Normalize(records[k].author.username) = Normalize(c.username)}

\* the records of a list that share the username, the display name or the
\* username-equals-email with the contributor
Sharing(records, c) ==
    {k \in DOMAIN records :
        \/ Normalize(records[k].author.username) = Normalize(c.username)
        \/ Normalize(records[k].author.name) = Normalize(c.name)
        \/ Normalize(records[k].author.username) = Normalize(c.email)}

\* C14 as stated: in the rows saved for a project, the merge_requests and
\* issues of a contributor count every record whose author username is the
\* contributor's username after trimming and lower-casing, and no record
\* that shares neither username, display name nor username-equals-email
\* with the contributor.
C14_UsernameMatchCounted ==
    [][CombineStep =>
          \A i \in Kept :
             LET row == NewRows[Cardinality({j \in Kept : j <= i})] IN
             /\ Cardinality(ByUsername(merge_requests, contributors[i]))
                    <= row.merge_requests
             /\ row.merge_requests
                    <= Cardinality(Sharing(merge_requests, contributors[i]))
             /\ Cardinality(ByUsername(result, contributors[i])) <= row.issues
             /\ row.issues <= Cardinality(Sharing(result, contributors[i]))]_vars

----------------------------------------------------------------------------
(* extract_contribution.py: get_user_data and generate_summary *)

\* most usernames in the input file
MaxUsers == 2

Usernames == {"a", "b"}

UserListsUpTo(n) == UNION {[1..k -> Usernames] : k \in 0..n}

\* The user payloads of the GraphQL API.  nodes: the primaryLanguage name of
\* each repository ("" when it is null); weeks: the contribution days of
\* each week; the last four fields: the totalCount of each repository.
UserPayloads ==
    {[total |-> 5, repo_count |-> 3, nodes |-> <<"Go", "", "Python", "Python">>,
      weeks |-> <<<<[month |-> <<2023, 6>>, count |-> 2],
                     [month |-> <<2023, 7>>, count |-> 1]>>,
                   <<[month |-> <<2023, 7>>, count |-> 2]>>>>,
      commit |-> <<3>>, pull_request |-> <<1, 1>>, issue |-> <<>>, review |-> <<>>],
     [total |-> 0, repo_count |-> 1, nodes |-> <<>>, weeks |-> <<>>,
      commit |-> <<>>, pull_request |-> <<>>, issue |-> <<>>, review |-> <<>>]}

\* data["data"]["user"] of a body: the key is absent, its value is null, or
\* it is a payload
UserEntries ==
    {[has |-> FALSE], [has |-> TRUE, null |-> TRUE]} \cup
    {[has |-> TRUE, null |-> FALSE, payload |-> p] : p \in UserPayloads}

\* What requests.post gives: an exception (no connection), or a response.
\* A body has an "errors" key or not, and a "data" key whose value is null
\* (only together with "errors", as GraphQL has it) or an object.
Replies ==
    {[kind |-> "exception"]} \cup
    {[kind |-> "response", status |-> 500, errors |-> FALSE, data_null |-> FALSE,
      user |-> [has |-> FALSE]]} \cup
    {[kind |-> "response", status |-> StatusOK, errors |-> TRUE, data_null |-> TRUE,
      user |-> [has |-> FALSE]]} \cup
    {[kind |-> "response", status |-> StatusOK, errors |-> e, data_null |-> FALSE,
      user |-> u] : e \in BOOLEAN, u \in UserEntries}

\* dict[key] = dict.get(key, 0) + n
DictAdd(dict, key, n) ==
    IF HasKey(dict, key)
    THEN [i \in DOMAIN dict |->
             IF dict[i].key = key THEN [dict[i] EXCEPT !.count = @ + n] ELSE dict[i]]
    ELSE Append(dict, [key |-> key, count |-> n])

RECURSIVE Sum(_)
Sum(ns) == IF ns = <<>> THEN 0 ELSE Head(ns) + Sum(Tail(ns))

\* languages: the repositories per primary language, null and empty names
\* left out
RECURSIVE CountLanguages(_, _)
CountLanguages(nodes, dict) ==
    IF nodes = <<>> THEN dict
    ELSE CountLanguages(Tail(nodes),
                        IF Head(nodes) = "" THEN dict ELSE DictAdd(dict, Head(nodes), 1))

\* max(languages, key=languages.get) if languages else "N/A": the first key,
\* in insertion order, that has the largest count
PrimaryLanguage(dict) ==
    IF dict = <<>> THEN "N/A"
    ELSE LET best == CHOOSE i \in DOMAIN dict :
                        /\ \A j \in DOMAIN dict : dict[j].count <= dict[i].count
                        /\ \A j \in 1..(i - 1) : dict[j].count < dict[i].count
         IN  dict[best].key

\* monthly_contributions: the contribution counts of the days, per month
RECURSIVE CountMonths(_, _)
CountMonths(days, dict) ==
    IF days = <<>> THEN dict
    ELSE CountMonths(Tail(days), DictAdd(dict, Head(days).month, Head(days).count))

\* _parse_user_data(user_data)
ParseUserData(p) ==
    [contributions |-> p.total,
     repositories |-> p.repo_count,
     primary_language |-> PrimaryLanguage(CountLanguages(p.nodes, <<>>)),
     monthly_contributions |-> CountMonths(Flatten(p.weeks), <<>>),
     contribution_types |->
        <<[key |-> "commits", count |-> Sum(p.commit)],
          [key |-> "pull_requests", count |-> Sum(p.pull_request)],
          [key |-> "issues", count |-> Sum(p.issue)],
          [key |-> "reviews", count |-> Sum(p.review)]>>]

\* _empty_user_data()
EmptyUserData ==
    [contributions |-> 0, repositories |-> 0, primary_language |-> "N/A",
     monthly_contributions |-> <<>>, contribution_types |-> <<>>]

\* an "errors" field is not looked at: the body is read for its user
GetUserDataUnchecked(r) ==
    IF r.status # StatusOK THEN [outcome |-> "return", value |-> EmptyUserData]
    ELSE IF r.data_null THEN [outcome |-> "raise", value |-> EmptyUserData]
    ELSE IF ~r.user.has \/ r.user.null
    THEN [outcome |-> "return", value |-> EmptyUserData]
    ELSE [outcome |-> "return", value |-> ParseUserData(r.user.payload)]

\* get_user_data from the response on: what it returns, or that it raises
\* (data.get("data", {}) is None when the body holds "data": null)
GetUserData(r) ==
    IF r.status # StatusOK THEN [outcome |-> "return", value |-> EmptyUserData]
    ELSE IF r.errors THEN [outcome |-> "return", value |-> EmptyUserData]
    ELSE IF r.data_null THEN [outcome |-> "raise", value |-> EmptyUserData]
    ELSE IF ~r.user.has \/ r.user.null
    THEN [outcome |-> "return", value |-> EmptyUserData]
    ELSE [outcome |-> "return", value |-> ParseUserData(r.user.payload)]

\* the entry generate_summary appends for a user
SummaryRow(user, user_data) ==
    [user |-> user,
     contributions |-> user_data.contributions,
     repositories |-> user_data.repositories,
     primary_language |-> user_data.primary_language,
     monthly_contributions |-> user_data.monthly_contributions,
     contribution_types |-> user_data.contribution_types]

\* write_summary: the two dict columns are written as str(...) of the dict
WrittenRow(row) ==
    [row EXCEPT !.monthly_contributions = [str |-> @],
                !.contribution_types = [str |-> @]]

\* get_user_data(user): requests.post(...)
SummaryRequest ==
    /\ spc = "loop"
    /\ ui <= Len(users)
    /\ \E r \in Replies :
         /\ reply' = r
         /\ spc' = IF r.kind = "exception" THEN "aborted" ELSE "replied"
    /\ UNCHANGED <<progvars, reposvars, historyvars, matchvars, runsvars, users, results, ui, output_csv>>

\* get_user_data returns and results.append({...}) follows, or it raises
SummaryAppend ==
    /\ spc = "replied"
    /\ LET got == GetUserData(reply) IN
       IF got.outcome = "raise"
       THEN /\ spc' = "aborted"
            /\ UNCHANGED <<results, ui>>
       ELSE /\ results' = Append(results, SummaryRow(users[ui], got.value))
            /\ ui' = ui + 1
            /\ spc' = "loop"
    /\ UNCHANGED <<progvars, reposvars, historyvars, matchvars, runsvars, users, reply, output_csv>>

\* self.csv_processor.write_summary(results)
SummaryWrite ==
    /\ spc = "loop"
    /\ ui > Len(users)
    /\ output_csv' = [exists |-> TRUE,
                      rows |-> [i \in DOMAIN results |-> WrittenRow(results[i])]]
    /\ spc' = "written"
    /\ UNCHANGED <<progvars, reposvars, historyvars, matchvars, runsvars, users, results, ui, reply>>

\* generate_summary after read_users returned
InitSummary ==
    /\ ProgIdle
    /\ ReposIdle
    /\ HistoryIdle
    /\ MatchIdle
    /\ RunsIdle
    /\ users \in UserListsUpTo(MaxUsers)
    /\ results = <<>>
    /\ ui = 1
    /\ reply = NoReply
    /\ output_csv = [exists |-> FALSE, rows |-> <<>>]
    /\ spc = "loop"

NextSummary ==
    \/ SummaryRequest
    \/ SummaryAppend
    \/ SummaryWrite

SpecSummary == InitSummary /\ [][NextSummary]_vars

\* the reply is a 200 response with an "errors" field or without user payload
Failing(r) ==
    /\ r.kind = "response"
    /\ r.status = 200
    /\ r.errors \/ r.data_null \/ ~r.user.has \/ r.user.null

\* C15: for a 200 response that has an "errors" field or no user payload
\* get_user_data does not raise and returns the all-zero summary, which
\* generate_summary appends for the user before going on with the next one;
\* the run stops early only when requests.post itself raised; and a run that
\* writes the summary writes one row per input username, in input order.
C15_FailuresAbsorbed ==
    /\ [][(spc = "replied" /\ Failing(reply)) =>
            /\ spc' = "loop"
            /\ ui' = ui + 1
            /\ results' =
                 Append(results,
                        [user |-> users[ui], contributions |-> 0, repositories |-> 0,
                         primary_language |-> "N/A", monthly_contributions |-> <<>>,
                         contribution_types |-> <<>>])]_vars
    /\ [](spc = "aborted" => reply.kind = "exception")
    /\ [](spc = "written" =>
            /\ Len(output_csv.rows) = Len(users)
            /\ \A i \in DOMAIN users : output_csv.rows[i].user = users[i])

\* the first username failed and the second one has its row, with the data
\* of its payload
C15_Witness ==
    /\ spc = "written"
    /\ users = <<"a", "b">>
    /\ output_csv.rows[1] =
         [user |-> "a", contributions |-> 0, repositories |-> 0,
          primary_language |-> "N/A", monthly_contributions |-> [str |-> <<>>],
          contribution_types |-> [str |-> <<>>]]
    /\ output_csv.rows[2].contributions = 5
    /\ output_csv.rows[2].primary_language = "Python"

----------------------------------------------------------------------------
(* The GitHub filters by login, called on their own *)

\* most records in the list handed to a filter
MaxActivity == 2

\* logins: jdoe, two spellings of it that differ by case or by surrounding
\* whitespace, and another account
Logins == {"jdoe", "JDoe", " jdoe", "vroe"}

ActivityListsUpTo(n) ==
    UNION {[1..k -> {[user |-> l, number |-> 1] : l \in Logins}] : k \in 0..n}

\* get_pull_requests: return [pr for pr in pulls if pr['user']['login'] == user_login]
MatchPulls ==
    /\ mpc = "pulls"
    /\ matched' = ByLogin(activity, user_login)
    /\ mpc' = "returned"
    /\ UNCHANGED <<progvars, reposvars, historyvars, summaryvars, runsvars, activity, user_login>>

\* get_issues: return [issue for issue in issues if issue['user']['login'] == user_login]
MatchIssues ==
    /\ mpc = "issues"
    /\ matched' = ByLogin(activity, user_login)
    /\ mpc' = "returned"
    /\ UNCHANGED <<progvars, reposvars, historyvars, summaryvars, runsvars, activity, user_login>>

\* reviews = [review for review in get_reviews(...) if review['user']['login'] == user_login]
MatchReviews ==
    /\ mpc = "reviews"
    /\ matched' = ByLogin(activity, user_login)
    /\ mpc' = "returned"
    /\ UNCHANGED <<progvars, reposvars, historyvars, summaryvars, runsvars, activity, user_login>>

\* a filter is about to run on the list its fetch returned
InitMatch ==
    /\ ProgIdle
    /\ ReposIdle
    /\ HistoryIdle
    /\ SummaryIdle
    /\ RunsIdle
    /\ activity \in ActivityListsUpTo(MaxActivity)
    /\ user_login \in Logins
    /\ matched = <<>>
    /\ mpc \in {"pulls", "issues", "reviews"}

NextMatch ==
    \/ MatchPulls
    \/ MatchIssues
    \/ MatchReviews

SpecMatch == InitMatch /\ [][NextMatch]_vars

\* the records of the list that are in the filtered list
Counted == {k \in DOMAIN activity : activity[k] \in Range(matched)}

\* C16 as stated: a pull request, issue or review whose author login equals
\* the contributor's login after trimming and lower-casing is counted for
\* the contributor.
C16_NormalizedLoginMatch ==
    mpc = "returned" =>
        \A k \in DOMAIN activity :
            Normalize(activity[k].user) = Normalize(user_login) => k \in Counted

\* C16 (amended): in the GitHub scripts a pull request, issue or review is
\* counted for a contributor exactly when its author login is equal to the
\* contributor's login, character for character; the records counted keep
\* their order; a record whose login differs from the contributor's by
\* letter case or surrounding whitespace is not counted.
C16_ExactLoginMatch ==
    mpc = "returned" =>
        /\ Counted = {k \in DOMAIN activity : activity[k].user = user_login}
        /\ Len(matched) = Cardinality(Counted)
        /\ \A k \in DOMAIN activity :
             (activity[k].user # user_login
                /\ Normalize(activity[k].user) = Normalize(user_login))
               => k \notin Counted

\* of a pull request by JDoe and one by jdoe, only the second is counted for
\* the contributor jdoe
C16_Witness ==
    /\ mpc = "returned"
    /\ user_login = "jdoe"
    /\ activity = <<[user |-> "JDoe", number |-> 1], [user |-> "jdoe", number |-> 1]>>
    /\ matched = <<[user |-> "jdoe", number |-> 1]>>

----------------------------------------------------------------------------
(* Claims about the GitLab get_paginated_data (SpecFetch) *)

\* C17: in the GitLab script a call of get_paginated_data that met a 403, on
\* the first page or on a later one, returns the empty list, whatever it had
\* read from the pages before; a call that returns without having met one
\* read the chain to its end and returns the concatenation of all its pages.
\* So the list returned is never a non-empty proper prefix of the chain.
C17_AllOrNothing ==
    (script = "gitlab" /\ fpc = "returned") =>
        /\ (\E i \in DOMAIN pages : pages[i].status = 403) => result = <<>>
        /\ (\A i \in DOMAIN pages : pages[i].status # 403) =>
             (Complete(pages) /\ result = ChainItems(pages))
        /\ result # <<>> => (Complete(pages) /\ result = ChainItems(pages))

\* page 1 gave two items and a next link, page 2 answered 403: the call
\* returned the empty list
C17_Witness ==
    /\ script = "gitlab"
    /\ fpc = "returned"
    /\ Len(pages) = 2
    /\ pages[1].status = 200 /\ Len(pages[1].items) = 2
    /\ pages[2].status = 403
    /\ items = pages[1].items
    /\ result = <<>>

----------------------------------------------------------------------------
(* A script run again and again, without a failed request, against an API  *)
(* that does not change                                                    *)

\* most runs of a script, one after the other
MaxRuns == 3

\* What the API holds: the names of the listing, no two the same, and the
\* number of contributors of each repository/project (the first n of a
\* fixed list).
Apis ==
    UNION {[listing : {l \in [1..k -> RepoTexts] :
                          \A i, j \in 1..k : l[i] = l[j] => i = j},
            ncontrib : [1..k -> 0..MaxContribs]] : k \in 0..MaxRepos}

\* the list the resource fetched at call site `site` holds
SiteItems(site) ==
    CASE site = "get_repos" -> [i \in DOMAIN api.listing |-> [name |-> api.listing[i]]]
      [] site = "projects" ->
           [i \in DOMAIN api.listing |-> [id |-> i, name |-> api.listing[i]]]
      [] site = "subgroups" -> <<>>
      [] site = "contributors" ->
           IF script = "github"
           THEN SubSeq(<<[login |-> "u"], [login |-> "v"]>>, 1, api.ncontrib[ri])
           ELSE SubSeq(GitlabContributors, 1, api.ncontrib[ri])
      [] site = "commits" -> <<CommitRecord>>
      [] site \in {"pulls", "review_pulls"} -> <<PullRecord>>
      [] site = "issues" ->
           <<IF script = "github" THEN IssueRecord ELSE GitlabIssueRecord>>
      [] site = "reviews" -> <<ReviewRecord>>
      [] site = "merge_requests" -> <<MergeRequestRecord>>
      [] OTHER -> <<>>

\* page u of that list, served one item a page with status 200
ApiPage(site, u) ==
    LET all == SiteItems(site) IN
    [items |-> IF u <= Len(all) THEN <<all[u]>> ELSE <<>>,
     status |-> StatusOK,
     next |-> u < Len(all)]

\* every page served so far is the API's, no response reports a low quota
\* and the languages request succeeded
ServedByApi ==
    /\ \A u \in DOMAIN pages : pages[u] = ApiPage(pc, u)
    /\ ~response.headers.has
    /\ lang_status \in {0, StatusOK}

\* the script is started again on the file the run before it left
Restart ==
    /\ pc \in {"done", "aborted"}
    /\ run < MaxRuns
    /\ run' = run + 1
    /\ times' = [i \in DOMAIN times |-> times[i] + (IF i \in entered THEN 1 ELSE 0)]
    /\ pc' = "start"
    /\ FetchDone
    /\ repo_data_list' = <<>> /\ processed_repos' = {} /\ loaded' = <<>>
    /\ repos' = <<>> /\ subgroups' = <<>> /\ gstack' = <<>> /\ ri' = 0 /\ entered' = {}
    /\ ResetRepo
    /\ ResetUser
    /\ UNCHANGED <<script, csv_file, api, reposvars, historyvars, summaryvars, matchvars>>

\* the first run starts without an output file
InitRuns ==
    /\ RunInit
    /\ ~csv_file.exists
    /\ ReposIdle
    /\ HistoryIdle
    /\ SummaryIdle
    /\ MatchIdle
    /\ api \in Apis
    /\ run = 1
    /\ times = [i \in DOMAIN api.listing |-> 0]

NextRuns ==
    \/ Next /\ ServedByApi'
    \/ Restart

SpecRuns == InitRuns /\ [][NextRuns]_vars

\* the repositories of the listing that have no contributor, and so no row
RowlessRepos == {i \in DOMAIN api.listing : api.ncontrib[i] = 0}

\* the number of times repository i was entered, this run included
TimesProcessed(i) == times[i] + (IF i \in entered THEN 1 ELSE 0)

\* the run is over
RunOver == pc \in {"done", "aborted"}

\* C18 as stated, for runs without a failed request against an unchanged
\* API: a repository saved without any row is not in the resume set of the
\* next run and is processed again in every later run, so that every run
\* that is over has entered it; and a repository with at least one row is
\* entered once in total: by the first run, and by no later run.
C18_RowlessRetriedOthersOnce ==
    /\ RunOver =>
         \A i \in RowlessRepos :
            /\ i \in entered
            /\ StrCell(api.listing[i]) \notin processed_repos
    /\ \A i \in DOMAIN api.listing \ RowlessRepos :
         /\ TimesProcessed(i) <= 1
         /\ (RunOver \/ run > 1) => TimesProcessed(i) = 1

====
